---------------------------- MODULE Spec2Model ----------------------------
(***************************************************************************)
(* Model of src/services/push-service.js: the notification dispatcher      *)
(* (sendLocalNotification, scheduleNotification and the send* wrappers),   *)
(* the history store kept under the AsyncStorage key                       *)
(* 'notification_history' (saveNotificationToHistory,                      *)
(* getNotificationHistory, clearNotificationHistory) and the viewer        *)
(* component's handlers (fetchNotification, handleClearAll).               *)
(*                                                                         *)
(* Every async function call is a task.  A task advances one step per      *)
(* host operation it awaits (the host notification request, a storage      *)
(* getItem / setItem / removeItem); the synchronous code between two       *)
(* awaits belongs to the step of the await that precedes it.  Tasks        *)
(* interleave only at their awaits, as on the JavaScript event loop.       *)
(*                                                                         *)
(* JavaScript values: a field value is a sequence, <<>> for undefined,     *)
(* <<v>> for the number or string v.  An object is a function from its     *)
(* keys; a key the object lacks is not in its domain.  title, body and     *)
(* receivedAt are opaque strings the code copies and never inspects; they  *)
(* are left out of the records.                                            *)
(***************************************************************************)
EXTENDS Naturals, Sequences, FiniteSets

\* The history keeps the first 50 entries (history.slice(0, 50)).
Cap == 50

\* Bound on the number of calls started in a run of Spec, SpecView and
\* SpecData.
MaxCalls == 2

\* Bound on the number of calls started in a run of SpecSeq.
MaxSeqCalls == 52

\* The async calls of a run: every call started under Spec and SpecView is
\* a task of its own, so all of them can be in flight at once; SpecSeq and
\* SpecData run one call at a time and reuse the first task.
Tasks == 1..MaxCalls

---------------------------------------------------------------------------
(* JavaScript values and objects *)

Undefined == <<>>

Val(v) == <<v>>

\* obj.key: undefined when the object has no such key.
Get(obj, key) == IF key \in DOMAIN obj THEN obj[key] ELSE Undefined

\* {...obj, key: v}
With(obj, key, v) ==
    [k \in (DOMAIN obj) \cup {key} |-> IF k = key THEN v ELSE obj[k]]

EmptyObj == [k \in {} |-> Undefined]

\* x passed on as given, without the default.
OrZeroNoDefault(x) == x

\* x || 0 on a number or undefined: 0 when x is undefined or 0.
OrZero(x) == IF x = Undefined \/ x = Val(0) THEN Val(0) ELSE x

---------------------------------------------------------------------------
(* JSON *)

\* JSON.stringify of an object drops the keys whose value is undefined.
StringifyObj(obj) ==
    [k \in {j \in DOMAIN obj : obj[j] # Undefined} |-> obj[k]]

StringifyItem(it) ==
    [id |-> it.id, data |-> StringifyObj(it.data), shleduledAt |-> it.shleduledAt]

\* The blob stored under 'notification_history': nothing (getItem gives
\* null), a text that JSON.parse rejects, or the JSON text of a list.
Absent == [kind |-> "absent", list |-> <<>>]

Corrupt == [kind |-> "corrupt", list |-> <<>>]

Stringify(list) ==
    [kind |-> "json", list |-> [i \in 1..Len(list) |-> StringifyItem(list[i])]]

\* JSON.parse throws on the corrupt blob; Parses(blob) is whether it returns.
Parses(blob) == blob.kind = "json"

Parse(blob) == blob.list

\* existingHistory ? JSON.parse(existingHistory) : []
ReadHistory(blob) == IF blob.kind = "absent" THEN <<>> ELSE Parse(blob)

\* Whether the expression above evaluates without throwing.
ReadHistoryOk(blob) == blob.kind = "absent" \/ Parses(blob)

---------------------------------------------------------------------------
(* Payloads built by the dispatcher *)

\* The data sendLocalNotification hands to the history:
\* {...data, title, body, price: data.price || 0, quantity: data.quantity || 0}
SendData(data) ==
    With(With(data, "price", OrZero(Get(data, "price"))),
         "quantity", OrZero(Get(data, "quantity")))

\* The data scheduleNotification hands to the history: only
\* {title, body, price: data.price || 0, quantity: data.quantity || 0}
ScheduleData(data) ==
    With(With(EmptyObj, "price", OrZero(Get(data, "price"))),
         "quantity", OrZero(Get(data, "quantity")))

\* new Date(Date.now() + seconds * 1000).toISOString(): an ISO string,
\* opaque to the code that stores it.
ScheduledAt(seconds) == Val("iso")

\* The data objects the send* wrappers build from their details.
BookingData == With(EmptyObj, "type", Val("booking_confirmed"))

PaymentData(amount) ==
    With(With(With(EmptyObj, "price", Val(amount)), "quantity", Val(1)),
         "type", Val("payment_confirmed"))

OrderConfirmationData(quantity, totalPrice) ==
    With(With(With(EmptyObj, "price", Val(totalPrice)), "quantity", Val(quantity)),
         "type", Val("order_confirmed"))

OrderReadyData(quantity, totalPrice) ==
    With(With(With(EmptyObj, "price", Val(totalPrice)), "quantity", Val(quantity)),
         "type", Val("order_ready"))

SpecialOfferData(discountPrice) ==
    With(With(With(EmptyObj, "price", Val(discountPrice)), "quantity", Val(1)),
         "type", Val("special_offer"))

---------------------------------------------------------------------------
(* saveNotificationToHistory's computation *)

\* notificationItem: the data keys price and quantity are always set, to
\* undefined when notification.data lacks them; shleduledAt is
\* notification.scheduledAt || ''.
NotificationItem(notification) ==
    [id |-> notification.id,
     data |-> With(With(notification.data, "price", Get(notification.data, "price")),
                   "quantity", Get(notification.data, "quantity")),
     shleduledAt |-> IF notification.scheduledAt = Undefined
                     THEN Val("")
                     ELSE notification.scheduledAt]

\* history.push(notificationItem): the record put last.
Push(history, item) == history \o <<item>>

\* history.unshift(notificationItem)
Unshift(history, item) == <<item>> \o history

\* history.slice(-50): the last 50 kept.
SliceLast(history) ==
    IF Len(history) <= Cap THEN history
    ELSE SubSeq(history, Len(history) - Cap + 1, Len(history))

\* history.slice(0, 50)
Slice(history) == SubSeq(history, 1, IF Len(history) < Cap THEN Len(history) ELSE Cap)

\* The list the call writes back.
TrimmedHistory(history, notification) ==
    Slice(Unshift(history, NotificationItem(notification)))

\* A removeItem of another key: the blob stays.
RemoveWrongKey(blob) == blob

\* AsyncStorage.removeItem('notification_history')
RemoveItem(blob) == Absent

---------------------------------------------------------------------------
(* State *)

VARIABLES
    storage,        \* the blob under 'notification_history'
    log,            \* history variable: every successful change of storage
    nextId,         \* the next identifier the host hands out
    calls,          \* calls started so far
    notifications,  \* the viewer's displayed list (useState)
    pc,             \* per task: the await it is suspended at
    op,             \* per task: the function called
    arg,            \* per task: the call's argument
    nid,            \* per task: notificationId / notification.id, 0 if none
    history,        \* per task: the local `history`
    outcome,        \* per task: how the call's promise settled
    failed,         \* per task: the host operation that failed, if any
    touched,        \* per task: whether the call made a storage request
    readAt,         \* per task: Len(log) at its getItem, 0 if none
    wroteAt         \* per task: Len(log) after its setItem/removeItem, 0 if none

vars == <<storage, log, nextId, calls, notifications, pc, op, arg, nid,
          history, outcome, failed, touched, readAt, wroteAt>>

taskVars == <<pc, op, arg, nid, history, outcome, failed, touched, readAt, wroteAt>>

NoArg == [data |-> EmptyObj, scheduledAt |-> Undefined]

\* The state of a history that n successive sendLocalNotification calls
\* without data have filled: identifiers n..1, newest first.
Prefill(n) ==
    [i \in 1..n |->
        NotificationItem([id |-> n + 1 - i, data |-> SendData(EmptyObj),
                          scheduledAt |-> Undefined])]

\* A log entry: the change ("init", "set", "remove"), the blob it left,
\* and for a set the record's id, the log length at the call's read, the
\* function called and the data it was called with.
Entry(kind, blob, by, base, via, input) ==
    [op |-> kind, blob |-> blob, by |-> by, base |-> base, via |-> via,
     input |-> input]

InitTasks ==
    /\ calls = 0
    /\ notifications = <<>>
    /\ pc = [t \in Tasks |-> "idle"]
    /\ op = [t \in Tasks |-> "none"]
    /\ arg = [t \in Tasks |-> NoArg]
    /\ nid = [t \in Tasks |-> 0]
    /\ history = [t \in Tasks |-> <<>>]
    /\ outcome = [t \in Tasks |-> "pending"]
    /\ failed = [t \in Tasks |-> "none"]
    /\ touched = [t \in Tasks |-> FALSE]
    /\ readAt = [t \in Tasks |-> 0]
    /\ wroteAt = [t \in Tasks |-> 0]

\* The store as earlier runs of the application can have left it: never
\* written, unreadable, or holding Cap - 1 or Cap entries.
InitStores == {<<0, Absent>>, <<0, Corrupt>>,
               <<Cap - 1, Stringify(Prefill(Cap - 1))>>,
               <<Cap, Stringify(Prefill(Cap))>>}

Init ==
    /\ \E s \in InitStores :
          /\ storage = s[2]
          /\ log = <<Entry("init", s[2], 0, 0, "none", EmptyObj)>>
          /\ nextId = s[1] + 1
    /\ InitTasks

---------------------------------------------------------------------------
(* Calls *)

\* A new call runs as the first task that is free.
Free(t) ==
    /\ pc[t] = "idle"
    /\ \A u \in Tasks : u < t => pc[u] # "idle"

Begin(t, f, a, at) ==
    /\ Free(t)
    /\ pc' = [pc EXCEPT ![t] = at]
    /\ op' = [op EXCEPT ![t] = f]
    /\ arg' = [arg EXCEPT ![t] = a]
    /\ calls' = calls + 1
    /\ UNCHANGED <<storage, log, nextId, notifications, nid, history, outcome,
                   failed, touched, readAt, wroteAt>>

\* The call settles: its promise resolves or rejects.
Settle(t, how, why) ==
    /\ pc' = [pc EXCEPT ![t] = "done"]
    /\ outcome' = [outcome EXCEPT ![t] = how]
    /\ failed' = [failed EXCEPT ![t] = why]

\* The call goes on to its next await, or settles resolved when it has none.
Goto(t, at, why) ==
    /\ pc' = [pc EXCEPT ![t] = at]
    /\ outcome' = [outcome EXCEPT ![t] = IF at = "done" THEN "resolved" ELSE @]
    /\ failed' = [failed EXCEPT ![t] = why]

SendOps == {"sendLocalNotification", "scheduleNotification"}

SaveOps == SendOps \cup {"saveNotificationToHistory"}

GetOps == {"getNotificationHistory", "fetchNotification"}

ClearOps == {"clearNotificationHistory", "handleClearAll"}

\* sendLocalNotification({title, body, data})
StartSend(t, d) ==
    Begin(t, "sendLocalNotification", [data |-> d, scheduledAt |-> Undefined], "deliver")

\* scheduleNotification({title, body, data, seconds})
StartSchedule(t, d, seconds) ==
    Begin(t, "scheduleNotification",
          [data |-> d, scheduledAt |-> ScheduledAt(seconds)], "deliver")

\* saveNotificationToHistory(notification), called directly: the caller
\* supplies notification.id, here a fresh identifier.
StartSave(t, d, sched) ==
    /\ Free(t)
    /\ pc' = [pc EXCEPT ![t] = "read"]
    /\ op' = [op EXCEPT ![t] = "saveNotificationToHistory"]
    /\ arg' = [arg EXCEPT ![t] = [data |-> d, scheduledAt |-> sched]]
    /\ nid' = [nid EXCEPT ![t] = nextId]
    /\ nextId' = nextId + 1
    /\ calls' = calls + 1
    /\ UNCHANGED <<storage, log, notifications, history, outcome, failed,
                   touched, readAt, wroteAt>>

StartGet(t) == Begin(t, "getNotificationHistory", NoArg, "get")

StartClear(t) == Begin(t, "clearNotificationHistory", NoArg, "remove")

StartFetch(t) == Begin(t, "fetchNotification", NoArg, "get")

StartClearAll(t) == Begin(t, "handleClearAll", NoArg, "hostClear")

\* The host has taken the notification of sendLocalNotification call s
\* (trigger: null, delivered at once) and its notification-received event
\* has not reached the viewer's listener yet.
ReceivedPending(s) ==
    /\ op[s] = "sendLocalNotification"
    /\ nid[s] > 0
    /\ ~\E u \in Tasks : op[u] = "fetchNotification" /\ nid[u] = nid[s]

\* The listener of addNotificationReceivedListener runs for the
\* notification of call s and calls fetchNotification; nid of the fetch
\* names the notification the event was about.
OnReceived(t, s) ==
    /\ ReceivedPending(s)
    /\ Free(t)
    /\ pc' = [pc EXCEPT ![t] = "get"]
    /\ op' = [op EXCEPT ![t] = "fetchNotification"]
    /\ arg' = [arg EXCEPT ![t] = NoArg]
    /\ nid' = [nid EXCEPT ![t] = nid[s]]
    /\ calls' = calls + 1
    /\ UNCHANGED <<storage, log, nextId, notifications, history, outcome,
                   failed, touched, readAt, wroteAt>>

\* The notification object handed to saveNotificationToHistory.
Notification(t) ==
    [id |-> nid[t],
     data |-> IF op[t] = "sendLocalNotification" THEN SendData(arg[t].data)
              ELSE IF op[t] = "scheduleNotification" THEN ScheduleData(arg[t].data)
              ELSE arg[t].data,
     scheduledAt |-> arg[t].scheduledAt]

---------------------------------------------------------------------------
(* Dispatcher steps *)

\* await Notifications.scheduleNotificationAsync(...) resolves with the
\* identifier; the call goes on to saveNotificationToHistory.
Deliver(t) ==
    /\ pc[t] = "deliver"
    /\ nid' = [nid EXCEPT ![t] = nextId]
    /\ nextId' = nextId + 1
    /\ pc' = [pc EXCEPT ![t] = "read"]
    /\ UNCHANGED <<storage, log, calls, notifications, op, arg, history,
                   outcome, failed, touched, readAt, wroteAt>>

\* The host request rejects and the call goes on to the history.
DeliverFailSwallowed(t) ==
    /\ pc[t] = "deliver"
    /\ pc' = [pc EXCEPT ![t] = "read"]
    /\ failed' = [failed EXCEPT ![t] = "deliver"]
    /\ UNCHANGED <<storage, log, nextId, calls, notifications, op, arg, nid,
                   history, outcome, touched, readAt, wroteAt>>

\* The host request rejects: the catch logs and rethrows.
DeliverFail(t) ==
    /\ pc[t] = "deliver"
    /\ Settle(t, "rejected", "deliver")
    /\ UNCHANGED <<storage, log, nextId, calls, notifications, op, arg, nid,
                   history, touched, readAt, wroteAt>>

---------------------------------------------------------------------------
(* History store steps *)

\* await AsyncStorage.getItem(historyKey) resolves and the blob reads as a
\* list: the call builds the list to write and awaits setItem.
SaveRead(t) ==
    /\ pc[t] = "read"
    /\ ReadHistoryOk(storage)
    /\ history' = [history EXCEPT ![t] = ReadHistory(storage)]
    /\ readAt' = [readAt EXCEPT ![t] = Len(log)]
    /\ touched' = [touched EXCEPT ![t] = TRUE]
    /\ pc' = [pc EXCEPT ![t] = "write"]
    /\ UNCHANGED <<storage, log, nextId, calls, notifications, op, arg, nid,
                   outcome, failed, wroteAt>>

\* getItem resolves, JSON.parse throws and the list is taken as empty.
SaveParseFailAsEmpty(t) ==
    /\ pc[t] = "read"
    /\ ~ReadHistoryOk(storage)
    /\ history' = [history EXCEPT ![t] = <<>>]
    /\ readAt' = [readAt EXCEPT ![t] = Len(log)]
    /\ touched' = [touched EXCEPT ![t] = TRUE]
    /\ pc' = [pc EXCEPT ![t] = "write"]
    /\ UNCHANGED <<storage, log, nextId, calls, notifications, op, arg, nid,
                   outcome, failed, wroteAt>>

\* getItem resolves and JSON.parse throws: the catch logs, the call returns.
SaveParseFail(t) ==
    /\ pc[t] = "read"
    /\ ~ReadHistoryOk(storage)
    /\ readAt' = [readAt EXCEPT ![t] = Len(log)]
    /\ touched' = [touched EXCEPT ![t] = TRUE]
    /\ Settle(t, "resolved", "parse")
    /\ UNCHANGED <<storage, log, nextId, calls, notifications, op, arg, nid,
                   history, wroteAt>>

\* getItem rejects and the failure reaches the caller.
SaveReadFailRethrown(t) ==
    /\ pc[t] = "read"
    /\ touched' = [touched EXCEPT ![t] = TRUE]
    /\ Settle(t, "rejected", "read")
    /\ UNCHANGED <<storage, log, nextId, calls, notifications, op, arg, nid,
                   history, readAt, wroteAt>>

\* getItem rejects: the catch logs, the call returns.
SaveReadFail(t) ==
    /\ pc[t] = "read"
    /\ touched' = [touched EXCEPT ![t] = TRUE]
    /\ Settle(t, "resolved", "read")
    /\ UNCHANGED <<storage, log, nextId, calls, notifications, op, arg, nid,
                   history, readAt, wroteAt>>

\* A setItem that prepends to the list stored at the time of the write.
SaveWriteAtomic(t) ==
    /\ pc[t] = "write"
    /\ storage' = Stringify(TrimmedHistory(ReadHistory(storage), Notification(t)))
    /\ log' = Append(log, Entry("set", storage', nid[t], readAt[t], op[t], arg[t].data))
    /\ wroteAt' = [wroteAt EXCEPT ![t] = Len(log) + 1]
    /\ Settle(t, "resolved", "none")
    /\ UNCHANGED <<nextId, calls, notifications, op, arg, nid, history,
                   touched, readAt>>

\* await AsyncStorage.setItem(historyKey, JSON.stringify(trimmedHistory))
\* resolves; the dispatcher returns notificationId.
SaveWrite(t) ==
    /\ pc[t] = "write"
    /\ storage' = Stringify(TrimmedHistory(history[t], Notification(t)))
    /\ log' = Append(log, Entry("set", storage', nid[t], readAt[t], op[t], arg[t].data))
    /\ wroteAt' = [wroteAt EXCEPT ![t] = Len(log) + 1]
    /\ Settle(t, "resolved", "none")
    /\ UNCHANGED <<nextId, calls, notifications, op, arg, nid, history,
                   touched, readAt>>

\* setItem rejects: the catch logs, the call returns.
SaveWriteFail(t) ==
    /\ pc[t] = "write"
    /\ Settle(t, "resolved", "write")
    /\ UNCHANGED <<storage, log, nextId, calls, notifications, op, arg, nid,
                   history, touched, readAt, wroteAt>>

\* getNotificationHistory: getItem resolves; the list, or [] when
\* JSON.parse throws.
GetRead(t) ==
    /\ pc[t] = "get"
    /\ history' = [history EXCEPT ![t] =
                      IF ReadHistoryOk(storage) THEN ReadHistory(storage) ELSE <<>>]
    /\ readAt' = [readAt EXCEPT ![t] = Len(log)]
    /\ touched' = [touched EXCEPT ![t] = TRUE]
    /\ Goto(t, IF op[t] = "fetchNotification" THEN "setList" ELSE "done",
            IF ReadHistoryOk(storage) THEN "none" ELSE "parse")
    /\ UNCHANGED <<storage, log, nextId, calls, notifications, op, arg, nid, wroteAt>>

\* getNotificationHistory: getItem rejects; [].
GetReadFail(t) ==
    /\ pc[t] = "get"
    /\ history' = [history EXCEPT ![t] = <<>>]
    /\ touched' = [touched EXCEPT ![t] = TRUE]
    /\ Goto(t, IF op[t] = "fetchNotification" THEN "setList" ELSE "done", "read")
    /\ UNCHANGED <<storage, log, nextId, calls, notifications, op, arg, nid,
                   readAt, wroteAt>>

\* clearNotificationHistory: removeItem resolves.
Remove(t) ==
    /\ pc[t] = "remove"
    /\ storage' = RemoveItem(storage)
    /\ log' = Append(log, Entry("remove", storage', 0, 0, op[t], EmptyObj))
    /\ wroteAt' = [wroteAt EXCEPT ![t] = Len(log) + 1]
    /\ touched' = [touched EXCEPT ![t] = TRUE]
    /\ Goto(t, IF op[t] = "handleClearAll" THEN "setEmpty" ELSE "done", failed[t])
    /\ UNCHANGED <<nextId, calls, notifications, op, arg, nid, history, readAt>>

\* clearNotificationHistory: removeItem rejects; the catch logs.
RemoveFail(t) ==
    /\ pc[t] = "remove"
    /\ touched' = [touched EXCEPT ![t] = TRUE]
    /\ Goto(t, IF op[t] = "handleClearAll" THEN "setEmpty" ELSE "done", "remove")
    /\ UNCHANGED <<storage, log, nextId, calls, notifications, op, arg, nid,
                   history, readAt, wroteAt>>

---------------------------------------------------------------------------
(* Viewer steps *)

\* fetchNotification: setNotifications(history)
FetchSet(t) ==
    /\ pc[t] = "setList"
    /\ notifications' = history[t]
    /\ Goto(t, "done", failed[t])
    /\ UNCHANGED <<storage, log, nextId, calls, op, arg, nid, history,
                   touched, readAt, wroteAt>>

\* handleClearAll: await clearAllDeliveredNotifications() resolves.
HostClear(t) ==
    /\ pc[t] = "hostClear"
    /\ Goto(t, "remove", failed[t])
    /\ UNCHANGED <<storage, log, nextId, calls, notifications, op, arg, nid,
                   history, touched, readAt, wroteAt>>

\* clearAllDeliveredNotifications (@/notification/listeners) asks the host
\* to remove the delivered notifications; like every host request it can
\* fail, and the failure reaches its caller.
ClearAllDeliveredRejects == TRUE

\* handleClearAll: clearAllDeliveredNotifications() rejects; the catch of
\* handleClearAll logs and the handler returns.
HostClearFail(t) ==
    /\ pc[t] = "hostClear"
    /\ ClearAllDeliveredRejects
    /\ Goto(t, "done", "hostClear")
    /\ UNCHANGED <<storage, log, nextId, calls, notifications, op, arg, nid,
                   history, touched, readAt, wroteAt>>

\* handleClearAll: setNotifications([])
ClearAllSet(t) ==
    /\ pc[t] = "setEmpty"
    /\ notifications' = <<>>
    /\ Goto(t, "done", failed[t])
    /\ UNCHANGED <<storage, log, nextId, calls, op, arg, nid, history,
                   touched, readAt, wroteAt>>

\* The caller has its result and goes on to its next call (sequential
\* callers): the task is free again.
Return(t) ==
    /\ pc[t] = "done"
    /\ pc' = [pc EXCEPT ![t] = "idle"]
    /\ op' = [op EXCEPT ![t] = "none"]
    /\ arg' = [arg EXCEPT ![t] = NoArg]
    /\ nid' = [nid EXCEPT ![t] = 0]
    /\ history' = [history EXCEPT ![t] = <<>>]
    /\ outcome' = [outcome EXCEPT ![t] = "pending"]
    /\ failed' = [failed EXCEPT ![t] = "none"]
    /\ touched' = [touched EXCEPT ![t] = FALSE]
    /\ readAt' = [readAt EXCEPT ![t] = 0]
    /\ wroteAt' = [wroteAt EXCEPT ![t] = 0]
    /\ UNCHANGED <<storage, log, nextId, calls, notifications>>

---------------------------------------------------------------------------
(* Specifications *)

\* The data the model passes to sendLocalNotification, scheduleNotification
\* and saveNotificationToHistory: a price and no quantity.
DataInputs == {With(EmptyObj, "price", Val(5))}

\* The dispatcher and the history store: calls of the exported functions,
\* interleaved at their awaits, any host operation failing.
Step(t) ==
    \/ Deliver(t)
    \/ DeliverFail(t)
    \/ SaveRead(t)
    \/ SaveParseFail(t)
    \/ SaveReadFail(t)
    \/ SaveWrite(t)
    \/ SaveWriteFail(t)
    \/ GetRead(t)
    \/ GetReadFail(t)
    \/ Remove(t)
    \/ RemoveFail(t)

Start(t) ==
    \/ \E d \in DataInputs : StartSend(t, d)
    \/ \E d \in DataInputs : StartSchedule(t, d, 60)
    \/ \E d \in DataInputs : StartSave(t, d, Undefined)
    \/ StartGet(t)
    \/ StartClear(t)

Next == \E t \in Tasks : (calls < MaxCalls /\ Start(t)) \/ Step(t)

Spec == Init /\ [][Next]_vars

\* The viewer, mounted: its handlers fetchNotification and handleClearAll
\* and its notification-received listener beside sendLocalNotification
\* calls.
StepView(t) ==
    \/ Deliver(t)
    \/ DeliverFail(t)
    \/ SaveRead(t)
    \/ SaveParseFail(t)
    \/ SaveReadFail(t)
    \/ SaveWrite(t)
    \/ SaveWriteFail(t)
    \/ GetRead(t)
    \/ GetReadFail(t)
    \/ Remove(t)
    \/ RemoveFail(t)
    \/ FetchSet(t)
    \/ HostClear(t)
    \/ HostClearFail(t)
    \/ ClearAllSet(t)

StartView(t) ==
    \/ \E d \in DataInputs : StartSend(t, d)
    \/ StartFetch(t)
    \/ StartClearAll(t)
    \/ \E s \in Tasks : OnReceived(t, s)

NextView == \E t \in Tasks : (calls < MaxCalls /\ StartView(t)) \/ StepView(t)

SpecView == Init /\ [][NextView]_vars

\* Sequential appends on an empty store: saveNotificationToHistory and
\* getNotificationHistory calls, one at a time, no host operation failing.
AllIdle == \A t \in Tasks : pc[t] = "idle"

InitEmpty ==
    /\ storage = Absent
    /\ log = <<Entry("init", Absent, 0, 0, "none", EmptyObj)>>
    /\ nextId = 1
    /\ InitTasks

StartSeq(t) ==
    \/ StartSave(t, SendData(EmptyObj), Undefined)
    \/ StartGet(t)

StepSeq(t) ==
    \/ SaveRead(t)
    \/ SaveWrite(t)
    \/ GetRead(t)
    \/ Return(t)

NextSeq == \E t \in Tasks : (calls < MaxSeqCalls /\ AllIdle /\ StartSeq(t)) \/ StepSeq(t)

SpecSeq == InitEmpty /\ [][NextSeq]_vars

\* Every entry point with a wider choice of data, one call at a time, on
\* an empty store.
Amounts == {0, 5}

Quantities == {1, 2}

Field(key, values) ==
    {EmptyObj} \cup {With(EmptyObj, key, Val(v)) : v \in values}

Merge(a, b) == [k \in (DOMAIN a) \cup (DOMAIN b) |-> IF k \in DOMAIN a THEN a[k] ELSE b[k]]

RawData == {Merge(p, q) : p \in Field("price", Amounts), q \in Field("quantity", {2})}

\* sendBookingConfirmationNotification(bookingDetails)
StartBooking(t) == StartSend(t, BookingData)

\* sendPaymentConfirmationNotification(paymentDetails)
StartPayment(t, amount) == StartSend(t, PaymentData(amount))

\* sendOrderConfirmationNotification(orderDetails)
StartOrderConfirmation(t, quantity, totalPrice) ==
    StartSend(t, OrderConfirmationData(quantity, totalPrice))

\* sendOrderReadyNotification({coffeeName, quantity, totalPrice, orderId})
StartOrderReady(t, quantity, totalPrice) ==
    StartSend(t, OrderReadyData(quantity, totalPrice))

\* sendSpecialOfferNotification({offerTitle, coffeeName, discountPrice, originalPrice})
StartSpecialOffer(t, discountPrice) == StartSend(t, SpecialOfferData(discountPrice))

StartData(t) ==
    \/ \E d \in RawData : StartSend(t, d)
    \/ \E d \in RawData : StartSchedule(t, d, 60)
    \/ \E d \in RawData : StartSave(t, d, Undefined)
    \/ StartBooking(t)
    \/ \E a \in Amounts : StartPayment(t, a)
    \/ \E q \in Quantities, a \in Amounts : StartOrderConfirmation(t, q, a)
    \/ \E q \in Quantities, a \in Amounts : StartOrderReady(t, q, a)
    \/ \E a \in Amounts : StartSpecialOffer(t, a)

StepData(t) ==
    \/ Deliver(t)
    \/ DeliverFail(t)
    \/ SaveRead(t)
    \/ SaveReadFail(t)
    \/ SaveWrite(t)
    \/ SaveWriteFail(t)
    \/ Return(t)

NextData == \E t \in Tasks : (calls < MaxCalls /\ AllIdle /\ StartData(t)) \/ StepData(t)

SpecData == InitEmpty /\ [][NextData]_vars

---------------------------------------------------------------------------
(* Properties *)

Min(a, b) == IF a < b THEN a ELSE b

Ids(list) == {list[i].id : i \in 1..Len(list)}

\* The list a log entry's blob holds (none for an absent or unreadable blob).
ListAt(k) == log[k].blob.list

\* new is prev with one record put in front and cut to Cap from the tail.
PrependedAndCut(new, prev, id) ==
    /\ Len(new) = Min(Len(prev) + 1, Cap)
    /\ new[1].id = id
    /\ \A i \in 2..Len(new) : new[i] = prev[i - 1]

\* C1: in every reachable state the persisted list has at most 50 entries,
\* and every write that the store has taken put the new record in front of
\* the list its call had read and dropped what exceeded 50 from the tail.
C1_Capacity ==
    /\ storage = log[Len(log)].blob
    /\ Len(storage.list) <= Cap
    /\ \A k \in 2..Len(log) :
          log[k].op = "set" => PrependedAndCut(ListAt(k), ListAt(log[k].base), log[k].by)

\* C1 witness: a write on a list of 50 has happened; the store holds 50 and
\* the oldest record of the list read is gone.
C1_Witness ==
    \E k \in 2..Len(log) :
        /\ log[k].op = "set"
        /\ Len(ListAt(log[k].base)) = Cap
        /\ k = Len(log)
        /\ Len(storage.list) = Cap
        /\ ListAt(log[k].base)[Cap].id \notin Ids(storage.list)

\* C2: after n sequential appends on an empty store getNotificationHistory
\* returns the min(n, 50) most recent records, newest first (the record of
\* the k-th call has id k), and a finished append has put its record first.
C2_NewestFirst ==
    \A t \in Tasks :
        /\ (op[t] = "getNotificationHistory" /\ pc[t] = "done") =>
              /\ Len(history[t]) = Min(nextId - 1, Cap)
              /\ \A i \in 1..Len(history[t]) : history[t][i].id = nextId - i
        /\ (op[t] = "saveNotificationToHistory" /\ pc[t] = "done") =>
              /\ storage.list[1].id = nid[t]
              /\ nid[t] = nextId - 1

\* C2 witness: after 51 appends the list returned has 50 records, the last
\* is the record of the 2nd call and the record of the 1st call is absent.
C2_Witness ==
    \E t \in Tasks :
        /\ op[t] = "getNotificationHistory"
        /\ pc[t] = "done"
        /\ nextId - 1 = Cap + 1
        /\ Len(history[t]) = Cap
        /\ history[t][Cap].id = 2
        /\ history[t][1].id = Cap + 1
        /\ 1 \notin Ids(history[t])

\* C3: a sendLocalNotification / scheduleNotification call makes a storage
\* request only after its host delivery request has succeeded; when the
\* delivery request fails the call rejects without an identifier, has made
\* no storage request and has changed nothing in the store.
C3_DeliveryFirst ==
    \A t \in Tasks :
        op[t] \in SendOps =>
            /\ (touched[t] \/ readAt[t] > 0 \/ wroteAt[t] > 0) =>
                  (nid[t] > 0 /\ failed[t] # "deliver")
            /\ failed[t] = "deliver" =>
                  /\ pc[t] = "done"
                  /\ outcome[t] = "rejected"
                  /\ nid[t] = 0
                  /\ ~touched[t]
            /\ \A k \in 2..Len(log) : log[k].op = "set" => log[k].by > 0

\* C3 witness: a send has failed at delivery while the store holds records.
C3_Witness ==
    \E t \in Tasks :
        /\ op[t] \in SendOps
        /\ failed[t] = "deliver"
        /\ outcome[t] = "rejected"
        /\ Len(storage.list) = Cap
        /\ Len(log) = 1

\* C4: when the delivery of a sendLocalNotification / scheduleNotification
\* call has succeeded and its storage read, parse or write fails, the call
\* still resolves with the host's identifier and has written nothing.
C4_HistoryBestEffort ==
    \A t \in Tasks :
        (op[t] \in SendOps /\ failed[t] \in {"read", "parse", "write"}) =>
            /\ pc[t] = "done"
            /\ outcome[t] = "resolved"
            /\ nid[t] > 0
            /\ wroteAt[t] = 0
            /\ \A k \in 2..Len(log) : log[k].by # nid[t]

\* C4 witness: a send whose setItem failed has resolved with its identifier
\* and the store is as it was.
C4_Witness ==
    \E t \in Tasks :
        /\ op[t] \in SendOps
        /\ failed[t] = "write"
        /\ outcome[t] = "resolved"
        /\ nid[t] > 0
        /\ Len(log) = 1
        /\ Len(storage.list) = Cap

\* The record has data.price and data.quantity, neither undefined.
HasKeys(record) ==
    /\ {"price", "quantity"} \subseteq DOMAIN record.data
    /\ record.data["price"] # Undefined
    /\ record.data["quantity"] # Undefined

\* C5 as stated: every record in the store has data.price and data.quantity,
\* however it was inserted.
C5_Original == \A i \in 1..Len(storage.list) : HasKeys(storage.list[i])

\* C5 amended: every record inserted through sendLocalNotification,
\* scheduleNotification or a send* wrapper has data.price and data.quantity,
\* 0 when the data supplied lacked them; a record inserted by a direct
\* saveNotificationToHistory call has each of the two exactly when the data
\* supplied had it.
C5_DispatcherDefaults ==
    /\ \A k \in 2..Len(log) :
          log[k].op = "set" =>
              LET r == ListAt(k)[1]
                  in == log[k].input
              IN  /\ log[k].via \in SendOps =>
                        /\ HasKeys(r)
                        /\ "price" \notin DOMAIN in => r.data["price"] = <<0>>
                        /\ "quantity" \notin DOMAIN in => r.data["quantity"] = <<0>>
                  /\ log[k].via = "saveNotificationToHistory" =>
                        \A key \in {"price", "quantity"} :
                            key \in DOMAIN r.data <=> key \in DOMAIN in
    /\ \A i \in 1..Len(storage.list) :
          (\E k \in 2..Len(log) : /\ log[k].op = "set"
                                  /\ log[k].via \in SendOps
                                  /\ log[k].by = storage.list[i].id)
              => HasKeys(storage.list[i])

\* C5 witness: a send whose data had neither price nor quantity has stored
\* its record with both 0.
C5_Witness ==
    /\ Len(log) > 1
    /\ log[Len(log)].op = "set"
    /\ log[Len(log)].via \in SendOps
    /\ DOMAIN log[Len(log)].input \cap {"price", "quantity"} = {}
    /\ storage.list[1].data["price"] = <<0>>
    /\ storage.list[1].data["quantity"] = <<0>>

\* A finished saveNotificationToHistory whose getItem found the blob b, with
\* no host request of its own failing and no other change of the store since
\* its read.
AppendedAlone(t, kind) ==
    /\ op[t] \in SaveOps
    /\ pc[t] = "done"
    /\ failed[t] \in {"none", "parse"}
    /\ readAt[t] > 0
    /\ log[readAt[t]].blob.kind = kind
    /\ Len(log) = IF wroteAt[t] > 0 THEN readAt[t] + 1 ELSE readAt[t]

IsOnly(t) ==
    /\ storage.kind = "json"
    /\ Len(storage.list) = 1
    /\ storage.list[1].id = nid[t]

\* C6 as stated: after append(R) on a store whose blob is absent or
\* unparseable the persisted list is [R].
C6_Original ==
    \A t \in Tasks :
        (AppendedAlone(t, "absent") \/ AppendedAlone(t, "corrupt")) => IsOnly(t)

\* C6 amended: after append(R) on a store whose blob is absent the persisted
\* list is [R]; on a store whose blob is unparseable the call writes nothing,
\* returns without error and the blob stays as it was.
C6_ParseFailureIsNoOp ==
    \A t \in Tasks :
        /\ AppendedAlone(t, "absent") => IsOnly(t)
        /\ (op[t] \in SaveOps /\ readAt[t] > 0 /\ log[readAt[t]].blob.kind = "corrupt") =>
              /\ pc[t] = "done"
              /\ failed[t] = "parse"
              /\ outcome[t] = "resolved"
              /\ wroteAt[t] = 0
              /\ \A k \in 2..Len(log) : log[k].by # nid[t]
              /\ Len(log) = readAt[t] => storage = Corrupt

\* C6 witness: an append on an unparseable blob has returned and the blob
\* is still unparseable.
C6_Witness ==
    \E t \in Tasks :
        /\ AppendedAlone(t, "corrupt")
        /\ outcome[t] = "resolved"
        /\ storage = Corrupt

\* C7: a getNotificationHistory whose getItem succeeds when the last change
\* of the store was a clear (no append has written since) returns an empty
\* list.
C7_ClearThenGet ==
    \A t \in Tasks :
        (op[t] \in GetOps /\ readAt[t] > 0 /\ failed[t] = "none"
            /\ log[readAt[t]].op = "remove") => history[t] = <<>>

\* C7 witness: a store of 50 records was cleared and the next
\* getNotificationHistory has returned the empty list.
C7_Witness ==
    \E t \in Tasks :
        /\ op[t] = "getNotificationHistory"
        /\ pc[t] = "done"
        /\ failed[t] = "none"
        /\ readAt[t] = 2
        /\ log[2].op = "remove"
        /\ Len(ListAt(1)) = Cap
        /\ history[t] = <<>>

\* Both calls have written, b's read came before a's write and b's write
\* after it.
Raced(a, b) ==
    /\ a # b
    /\ op[a] \in SaveOps
    /\ op[b] \in SaveOps
    /\ wroteAt[a] > 0
    /\ readAt[b] < wroteAt[a]
    /\ wroteAt[a] < wroteAt[b]

\* C8: when two appends interleave so that one reads before the other
\* writes and writes after it, the later write replaces the whole list and
\* the list it leaves holds its own record and not the other call's.
C8_LostUpdate ==
    \A a, b \in Tasks :
        Raced(a, b) =>
            /\ nid[b] \in Ids(ListAt(wroteAt[b]))
            /\ nid[a] \notin Ids(ListAt(wroteAt[b]))

\* C8 witness: both calls read the same list, both completed without error
\* and the store holds only one of the two records.
C8_Witness ==
    \E a, b \in Tasks :
        /\ Raced(a, b)
        /\ readAt[a] = readAt[b]
        /\ pc[a] = "done" /\ outcome[a] = "resolved" /\ failed[a] = "none"
        /\ pc[b] = "done" /\ outcome[b] = "resolved" /\ failed[b] = "none"
        /\ Len(log) = wroteAt[b]
        /\ nid[b] \in Ids(storage.list)
        /\ nid[a] \notin Ids(storage.list)

\* C9 as stated: whenever handleClearAll finishes, whether or not the host
\* clear succeeded, it has cleared the history store (or removeItem itself
\* failed) and the displayed list is empty.
C9_Original ==
    [][\A t \in Tasks :
          (op[t] = "handleClearAll" /\ pc[t] # "done" /\ pc'[t] = "done") =>
              /\ notifications' = <<>>
              /\ wroteAt'[t] > 0 \/ failed'[t] = "remove"]_vars

\* The append t read, then a clear removed what t had read, then t wrote.
ClearedBetween(t) ==
    /\ op[t] \in SaveOps
    /\ readAt[t] > 0
    /\ wroteAt[t] > readAt[t] + 1
    /\ log[readAt[t] + 1].op = "remove"

\* C10: an append whose read comes before a clear and whose write comes
\* after it writes back the list the clear removed with its record in
\* front: the records removed are in the store again, up to the cap.
C10_ClearUndone ==
    \A t \in Tasks :
        ClearedBetween(t) =>
            LET removed == ListAt(readAt[t])
                new == ListAt(wroteAt[t])
            IN  /\ Len(new) = Min(Len(removed) + 1, Cap)
                /\ new[1].id = nid[t]
                /\ \A i \in 1..Min(Len(removed), Cap - 1) : new[i + 1] = removed[i]

\* C10 witness: the append and the clear have both completed and the store
\* holds records the clear had removed.
C10_Witness ==
    \E t, u \in Tasks :
        /\ ClearedBetween(t)
        /\ pc[t] = "done"
        /\ op[u] = "clearNotificationHistory"
        /\ pc[u] = "done"
        /\ wroteAt[u] = readAt[t] + 1
        /\ Len(log) = wroteAt[t]
        /\ Len(ListAt(readAt[t])) = Cap
        /\ Len(storage.list) = Cap
        /\ storage.list[2] = ListAt(readAt[t])[1]

\* The send s and the fetch f that its notification-received event started
\* have both finished, no host or storage request of either failed and
\* nothing has cleared the store.
SentAndRefetched(s, f) ==
    /\ op[s] = "sendLocalNotification"
    /\ pc[s] = "done"
    /\ outcome[s] = "resolved"
    /\ failed[s] = "none"
    /\ op[f] = "fetchNotification"
    /\ nid[f] = nid[s]
    /\ pc[f] = "done"
    /\ failed[f] = "none"
    /\ \A k \in 1..Len(log) : log[k].op # "remove"

\* C11 as stated: once a successful send and the re-fetch its
\* notification-received event triggered have finished, with no clear, the
\* displayed list contains the notification's record.
C11_Original ==
    \A s, f \in Tasks :
        SentAndRefetched(s, f) => nid[s] \in Ids(notifications)

=============================================================================
